---- MODULE Spec2Model ----
(***************************************************************************)
(* Director state machine, smile detector, smile text and tracking thread  *)
(* of the flower-field installation (src/main.py, src/smile_detector.py,   *)
(* src/smile_text.py), its flower field (src/flowers.py), its projection  *)
(* (src/projection.py) and the timed message renderer                      *)
(* (src/message_renderer.py).                                              *)
(*                                                                         *)
(* Numbers.  The program computes with floats; the model computes with     *)
(* exact integers on fixed grids:                                          *)
(*   - times (dt, intro_time, awakening_time, ...) in ticks of 0.1 s; all  *)
(*     time constants of the program are whole multiples of 0.1 s;         *)
(*   - smile_strength in units of 1/StrengthOne;                           *)
(*   - mouth-aspect metric and baseline in whole units;                    *)
(*   - room_energy as a numerator over EnergyOne.                          *)
(* Fixed-point products are rounded down (\div).                           *)
(***************************************************************************)
EXTENDS Integers, FiniteSets, Sequences, TLC

(* ------------------------------ bounds -------------------------------- *)
\* frame times returned by clock.tick, in ticks of 0.1 s: a short frame
\* (exactly the sustain duration), a stalled one (longer than the
\* calibration window) and a stall longer than the whole awakening
DtSet == {3, 40, 130}
\* Spec: ticks of intro_time spent DORMANT or ALIVE, iterations of the
\* tracking thread's loop, calibration samples
MaxIntro == 79
MaxTrackerFrames == 3
MaxSamples == 2
\* SpecFace: frame times with a frame shorter than the sustain duration
FaceDtSet == {2, 21}
\* SpecFace: ticks of intro_time, iterations of the tracking thread,
\* calibration samples
MaxFaceIntro == 74
MaxFaceFrames == 3
MaxFaceSamples == 4
\* SpecLive: a short frame and a stalled one
LiveDtSet == {3, 40}
\* SpecLive: ticks of intro_time not spent awakening, iterations of the
\* tracking thread, calibration samples taken while DORMANT
MaxLiveIntro == 76
MaxLiveFrames == 3
MaxLiveSamples == 2
\* SpecLost: a short frame and a stalled one
LostDtSet == {3, 21}
\* SpecLost: as SpecFace, with one more tracker iteration and a calibration
\* that takes two samples
MaxLostIntro == 81
MaxLostFrames == 4
MaxLostSamples == 2

(* -------------------------- program constants ------------------------- *)
None == -1

WORLD_DORMANT == 0
WORLD_AWAKENING == 1
WORLD_ALIVE == 2

\* AWAKEN_DURATION = 12.0 s, in ticks
AWAKEN_DURATION == 120
\* the literal 12.0 in ease(min(awakening_time / 12.0, 1.0)), in ticks
EaseDen == 120
\* room_energy = 1.0
EnergyOne == EaseDen * EaseDen * EaseDen

\* SMILE_SUSTAIN_DURATION = 0.3 s, in ticks
SMILE_SUSTAIN_DURATION == 3
\* smile_strength = 1.0
StrengthOne == 1000
\* main's SMILE_THRESHOLD = 0.6, in units of 1/StrengthOne
SMILE_THRESHOLD == 600
\* frames rendered before scene_ready
SceneReadyFrames == 3

\* SmileDetector: smooth = 0.08, baseline_smooth = 0.02 (percent)
SMILE_SMOOTHING == 8
baseline_smooth == 2
Percent == 100
\* calibration_duration = 2.0 s, in ticks
calibration_duration == 20
\* metric < 4.0 or metric > 2000.0 is rejected
MetricMin == 4
MetricMax == 2000
\* scale = 150.0 (deviation of 150 = full smile strength)
SmileScale == 150

\* SmileText animation states and timing (ticks)
STATE_HIDDEN == 0
STATE_FADING_IN == 1
STATE_VISIBLE == 2
STATE_FADING_OUT == 3
STATE_GONE == 4
reveal_delay == 50
letter_fade_in_duration == 5
letter_delay == 3
letter_fade_out_duration == 4
letter_delay_out == 2
fadeout_delay == 30
\* indices of the letters S, M, I, L, E
LetterIndex == 0 .. 4

(* ------------------------------ inputs -------------------------------- *)
\* A landmark list is represented by the two lengths compute_mouth_aspect
\* takes from it: h (lip corners) and v (inner lips).
Landmark(hh, vv) == [h |-> hh, v |-> vv]
\* neutral face (metric 50), smiling face (250), jitter spike (3001)
LandmarkSet == { Landmark(100, 2), Landmark(500, 2), Landmark(6003, 2) }
\* what face_mesh.process can publish: no face, or one landmark list
NoLandmarks == [h |-> None, v |-> None]
TrackerResults == LandmarkSet \cup {NoLandmarks}

(* ------------------------------ state --------------------------------- *)
VARIABLES
    \* main loop (src/main.py)
    world_state, awakening_time, intro_time, room_energy,
    smile_start_time, scene_ready, frames_rendered,
    \* SmileDetector
    smile_strength, baseline, calibration_start_time, is_calibrated,
    calibration_sample_count,
    \* SmileText
    text_state, animation_start_time, fadeout_requested,
    \* HandTracking fields shared with the tracking thread
    detected, landmarks,
    \* tracking thread: position in _loop, the result being published and
    \* the number of iterations begun
    tracker_pc, tracker_results, tracker_frames,
    \* the landmarks argument of the latest smile_detector.update call
    frame_landmarks,
    \* FlowerField.flowers: the pool, in insertion order; each flower also
    \* records what its latest Flower.draw call emitted
    flowers,
    \* the list `items` of the latest FlowerField.draw call, after its sort
    items,
    \* the world_energy argument of the latest FlowerField.update call
    field_energy,
    \* the latest call of project_off_axis made on its own: empty, or its
    \* arguments and its result
    proj_call,
    \* the arguments FlowerField was constructed with: lanes (kept as
    \* self.lanes) and depth_layers
    field_init,
    \* HandTracking.running and whether the camera is still open (cap not
    \* yet released)
    running, cap_open,
    \* the tracking thread around its iteration: at the `while` test, in
    \* the iteration, or exited
    thread_pc,
    \* the main thread on its way out: in its loop, about to call
    \* tracker.stop(), in join, about to release, done
    stop_pc,
    \* tracker_frames at the moment stop() cleared `running` (None before)
    stop_frames,
    \* how the latest FlowerField.draw call ended: "none" before the first
    \* call, "sorted" (drawn in depth order), "fallback" (returned from the
    \* except branch) or "raised"
    draw_outcome,
    \* MessageRenderer: its fields; times in 1/TimeOne s, alpha in 1/AlphaOne
    current_message_index, message_timer, message_state, current_alpha,
    \* the total_time argument of the latest MessageRenderer.update call and
    \* the values that call assigned to message_state, in order
    message_time, message_trace

mainVars == <<world_state, awakening_time, intro_time, room_energy,
              smile_start_time, scene_ready, frames_rendered, frame_landmarks>>
detectorVars == <<smile_strength, baseline, calibration_start_time,
                  is_calibrated, calibration_sample_count>>
textVars == <<text_state, animation_start_time, fadeout_requested>>
trackerVars == <<detected, landmarks, tracker_pc, tracker_results,
                 tracker_frames>>
fieldVars == <<flowers, items, field_energy, proj_call, field_init,
               draw_outcome>>
stopVars == <<running, cap_open, thread_pc, stop_pc, stop_frames>>
msgVars == <<current_message_index, message_timer, message_state,
             current_alpha, message_time, message_trace>>
vars == <<mainVars, detectorVars, textVars, trackerVars, fieldVars, stopVars,
          msgVars>>

(* --------------------------- pure functions --------------------------- *)
Min(a, b) == IF a <= b THEN a ELSE b
Max(a, b) == IF a >= b THEN a ELSE b
Abs(a) == IF a < 0 THEN -a ELSE a

\* lerp(a, b, t) = a + (b - a) * t, t given in percent
lerp(a, b, t) == a + ((b - a) * t) \div Percent

\* t * t * (2 - 3 * t): the coefficients swapped, a curve that turns down
ease_SwappedCoefficients(tn) == tn * tn * (2 * EaseDen - 3 * tn)

\* ease(t) = t * t * (3 - 2 * t) for t = tn / EaseDen, as a numerator
\* over EnergyOne
ease(tn) == tn * tn * (3 * EaseDen - 2 * tn)

\* SmileDetector.compute_mouth_aspect: h / v, or 0.0 when v <= 1e-6
compute_mouth_aspect(lm) == IF lm.v <= 0 THEN 0 ELSE lm.h \div lm.v

(* ---------------------------- SmileDetector --------------------------- *)
\* the detector's fields as one record
DetectorState == [smile_strength |-> smile_strength, baseline |-> baseline,
                  calibration_start_time |-> calibration_start_time,
                  is_calibrated |-> is_calibrated,
                  calibration_sample_count |-> calibration_sample_count]

\* only the lower limit is tested
InvalidMetric_NoUpper(metric) == metric < MetricMin

\* metric < 4.0 or metric > 2000.0: tracking error, frame is skipped
InvalidMetric(metric) == metric < MetricMin \/ metric > MetricMax

\* raw is not clamped
SmileTarget_NoClamp(metric, base) ==
    (Abs(metric - base) * StrengthOne) \div SmileScale

\* raw = abs(metric - baseline) / 150.0, clamped to [0, 1]
SmileTarget(metric, base) ==
    Max(0, Min(StrengthOne, (Abs(metric - base) * StrengthOne) \div SmileScale))

\* target = 0.0 on a bad frame, instead of holding the previous value
HoldTarget_Zero(strength) == 0

\* line 78: on a rejected metric the target is the previous smile_strength
HoldTarget(strength) == strength

\* SmileDetector.update(landmarks, current_time) applied to detector state d
SmileDetectorUpdate(d, lm, current_time) ==
    IF lm = NoLandmarks
    THEN \* face lost: calibration is reset, baseline is kept
         [d EXCEPT !.calibration_start_time = None,
                   !.is_calibrated = FALSE,
                   !.smile_strength = lerp(d.smile_strength, 0, SMILE_SMOOTHING)]
    ELSE LET metric == compute_mouth_aspect(lm) IN
         IF InvalidMetric(metric)
         THEN \* hold previous value
              [d EXCEPT !.smile_strength =
                            lerp(d.smile_strength, HoldTarget(d.smile_strength),
                                 SMILE_SMOOTHING)]
         ELSE LET first == d.baseline = None
                  base0 == IF first THEN metric ELSE d.baseline
                  start == IF first THEN current_time ELSE d.calibration_start_time
                  base1 == IF d.is_calibrated THEN base0
                           ELSE lerp(base0, metric, baseline_smooth)
                  count == IF d.is_calibrated THEN d.calibration_sample_count
                           ELSE d.calibration_sample_count + 1
                  calibrated == \/ d.is_calibrated
                                \/ /\ start # None
                                   /\ current_time - start >= calibration_duration
                  target == IF calibrated THEN SmileTarget(metric, base1) ELSE 0
              IN [smile_strength |-> lerp(d.smile_strength, target, SMILE_SMOOTHING),
                  baseline |-> base1,
                  calibration_start_time |-> start,
                  is_calibrated |-> calibrated,
                  calibration_sample_count |-> count]

(* ------------------------------ SmileText ----------------------------- *)
TextState == [state |-> text_state, animation_start_time |-> animation_start_time,
              fadeout_requested |-> fadeout_requested]

\* SmileText.start_fadeout: the request is recorded only while the text is
\* fading in or visible
StartFadeout(t) ==
    IF t.state \in {STATE_FADING_IN, STATE_VISIBLE}
    THEN [t EXCEPT !.fadeout_requested = TRUE]
    ELSE t

\* the first letter alone decides
FadeInComplete_FirstLetter(elapsed) == elapsed >= letter_fade_in_duration

\* fade-in loop: every letter has started and reached t >= 1.0
FadeInComplete(elapsed) ==
    \A i \in LetterIndex :
        LET letter_elapsed == elapsed - i * letter_delay
        IN letter_elapsed >= 0 /\ letter_elapsed >= letter_fade_in_duration

\* fade-out loop: no letter that has started is still below t = 1.0
\* (a letter that has not started leaves all_complete untouched)
FadeOutComplete(elapsed) ==
    \A i \in LetterIndex :
        LET reverse_idx == Cardinality(LetterIndex) - 1 - i
            letter_elapsed == elapsed - reverse_idx * letter_delay_out
        IN letter_elapsed >= 0 => letter_elapsed >= letter_fade_out_duration

\* the delay is not waited for
FadeoutDue_NoDelay(t, awakening) == t.fadeout_requested

\* line 173: a fade-out was requested and the delay has passed
FadeoutDue(t, awakening) ==
    t.fadeout_requested /\ awakening >= fadeout_delay

\* SmileText.update(dt, intro_time, awakening_time) applied to text state t
SmileTextUpdate(t, intro, awakening) ==
    LET t1 == IF t.state = STATE_HIDDEN /\ intro >= reveal_delay
              THEN [t EXCEPT !.state = STATE_FADING_IN,
                             !.animation_start_time = intro]
              ELSE t
        t2 == IF /\ FadeoutDue(t1, awakening)
                 /\ t1.state \notin {STATE_FADING_OUT, STATE_GONE}
              THEN [state |-> STATE_FADING_OUT,
                    animation_start_time |-> awakening,
                    fadeout_requested |-> FALSE]
              ELSE t1
        t3 == IF /\ t2.state = STATE_FADING_IN
                 /\ FadeInComplete(intro - t2.animation_start_time)
              THEN [t2 EXCEPT !.state = STATE_VISIBLE]
              ELSE t2
        t4 == IF /\ t3.state = STATE_FADING_OUT
                 /\ FadeOutComplete(awakening - t3.animation_start_time)
              THEN [t3 EXCEPT !.state = STATE_GONE]
              ELSE t3
    IN t4

(* --------------------------- tracking thread -------------------------- *)
\* HandTracking._loop, first half of an iteration: a camera frame is read
\* and processed, and `detected` is written (True when a face was found).
TrackerDetect(results) ==
    /\ tracker_pc = "process"
    /\ tracker_frames' = tracker_frames + 1
    /\ detected' = (results # NoLandmarks)
    /\ tracker_results' = results
    /\ tracker_pc' = "store"
    /\ UNCHANGED <<landmarks, mainVars, detectorVars, textVars, fieldVars,
                   msgVars, stopVars>>

\* second half: `landmarks` is written (the list, or None), then the
\* thread sleeps and loops; where the loop goes next (stopVars) is added by
\* each specification
TrackerStore ==
    /\ tracker_pc = "store"
    /\ landmarks' = tracker_results
    /\ tracker_results' = NoLandmarks
    /\ tracker_pc' = "process"
    /\ UNCHANGED <<detected, tracker_frames, mainVars, detectorVars, textVars,
                   fieldVars, msgVars>>

(* ------------------------------ main loop ----------------------------- *)
\* line 306-308: the smile is looked for only while DORMANT and once the
\* text is fully visible
GateOpen(state, t) == state = WORLD_DORMANT /\ t.state = STATE_VISIBLE

\* line 313: a face is detected and the smoothed strength is above threshold
Qualifies(is_detected, strength) == is_detected /\ strength > SMILE_THRESHOLD

\* the transition fires as soon as the timer runs
SustainReached_Immediate(intro, start) == intro - start >= 0

\* lines 318-319: the smile has been held for the sustain duration
SustainReached(intro, start) == intro - start >= SMILE_SUSTAIN_DURATION

\* lines 321-323: the awakening is triggered
Trigger(g) == [g EXCEPT !.world_state = WORLD_AWAKENING,
                        !.awakening_time = 0,
                        !.text = StartFadeout(g.text)]

\* the timer survives a frame that does not qualify
ResetSustain_Keep(g) == g

\* lines 324-325: the sustain timer is reset
ResetSustain(g) == [g EXCEPT !.smile_start_time = None]

\* lines 306-325: the DORMANT branch, giving [world_state, awakening_time,
\* smile_start_time, text]
SmileGate(intro, strength, is_detected, t) ==
    LET g == [world_state |-> world_state, awakening_time |-> awakening_time,
              smile_start_time |-> smile_start_time, text |-> t]
    IN IF ~GateOpen(world_state, t) THEN g
       ELSE IF Qualifies(is_detected, strength)
            THEN IF smile_start_time = None
                 THEN [g EXCEPT !.smile_start_time = intro]
                 ELSE IF SustainReached(intro, smile_start_time)
                      THEN Trigger(g)
                      ELSE g
            ELSE ResetSustain(g)

\* the hand-over writes the wrong state constant
Awaken_BackToDormant(g, dt) ==
    IF g.world_state # WORLD_AWAKENING THEN g
    ELSE IF g.awakening_time + dt >= AWAKEN_DURATION
         THEN [g EXCEPT !.awakening_time = AWAKEN_DURATION,
                        !.world_state = WORLD_DORMANT]
         ELSE [g EXCEPT !.awakening_time = g.awakening_time + dt]

\* `elif`: the frame that triggers the awakening does not accumulate dt
Awaken_NextFrame(g, dt) ==
    IF g.world_state # WORLD_AWAKENING \/ world_state = WORLD_DORMANT THEN g
    ELSE IF g.awakening_time + dt >= AWAKEN_DURATION
         THEN [g EXCEPT !.awakening_time = AWAKEN_DURATION,
                        !.world_state = WORLD_ALIVE]
         ELSE [g EXCEPT !.awakening_time = g.awakening_time + dt]

\* the awakening is paused while no face is detected
Awaken_PauseWithoutFace(g, dt) ==
    IF g.world_state # WORLD_AWAKENING \/ ~detected THEN g
    ELSE IF g.awakening_time + dt >= AWAKEN_DURATION
         THEN [g EXCEPT !.awakening_time = AWAKEN_DURATION,
                        !.world_state = WORLD_ALIVE]
         ELSE [g EXCEPT !.awakening_time = g.awakening_time + dt]

\* the clamp of line 331 is missing
Awaken_NoClamp(g, dt) ==
    IF g.world_state # WORLD_AWAKENING THEN g
    ELSE IF g.awakening_time + dt >= AWAKEN_DURATION
         THEN [g EXCEPT !.awakening_time = g.awakening_time + dt,
                        !.world_state = WORLD_ALIVE]
         ELSE [g EXCEPT !.awakening_time = g.awakening_time + dt]

\* lines 328-332: awakening_time accumulates, clamps and hands over to ALIVE
Awaken(g, dt) ==
    IF g.world_state # WORLD_AWAKENING THEN g
    ELSE IF g.awakening_time + dt >= AWAKEN_DURATION
         THEN [g EXCEPT !.awakening_time = AWAKEN_DURATION,
                        !.world_state = WORLD_ALIVE]
         ELSE [g EXCEPT !.awakening_time = g.awakening_time + dt]

\* two branches only: the ALIVE branch is missing
RoomEnergy_TwoBranch(state, awakening) ==
    IF state = WORLD_AWAKENING THEN ease(Min(awakening, EaseDen)) ELSE 0

\* lines 336-344: room_energy from the state
RoomEnergy(state, awakening) ==
    IF state = WORLD_DORMANT THEN 0
    ELSE IF state = WORLD_AWAKENING THEN ease(Min(awakening, EaseDen))
    ELSE EnergyOne

\* one iteration of the main loop (lines 269-352) with frame time dt; each
\* intermediate value is computed once, in program order.  tracker.landmarks
\* (line 304) and tracker.detected (line 310) are read from the same state;
\* the tracking thread may be between its two writes at that point.
\* The rendering half of the loop (head smoothing 285-292, the field's
\* update 352 and draw 382) reads room_energy and writes nothing Frame
\* reads; it is followed by FieldUpdate and FieldDraw, for every energy and
\* head position, and the flower pool is left as it is here.
Frame(dt) ==
    \E intro \in {IF scene_ready THEN intro_time + dt ELSE intro_time} :
    \E d \in {SmileDetectorUpdate(DetectorState, landmarks, intro)} :
    \E g \in {SmileGate(intro, d.smile_strength, detected, TextState)} :
    \E a \in {Awaken(g, dt)} :
    \E t \in {SmileTextUpdate(a.text, intro, a.awakening_time)} :
       /\ intro_time' = intro
       /\ frames_rendered' = IF scene_ready THEN frames_rendered
                             ELSE frames_rendered + 1
       /\ scene_ready' = (scene_ready \/ frames_rendered + 1 >= SceneReadyFrames)
       /\ frame_landmarks' = landmarks
       /\ smile_strength' = d.smile_strength
       /\ baseline' = d.baseline
       /\ calibration_start_time' = d.calibration_start_time
       /\ is_calibrated' = d.is_calibrated
       /\ calibration_sample_count' = d.calibration_sample_count
       /\ world_state' = a.world_state
       /\ awakening_time' = a.awakening_time
       /\ smile_start_time' = a.smile_start_time
       /\ room_energy' = RoomEnergy(a.world_state, a.awakening_time)
       /\ text_state' = t.state
       /\ animation_start_time' = t.animation_start_time
       /\ fadeout_requested' = t.fadeout_requested
       /\ UNCHANGED <<trackerVars, fieldVars, msgVars, stopVars>>

(* ---------------------------- flower field ---------------------------- *)
\* Numbers of the field (src/flowers.py, src/projection.py): lengths in
\* units of 1/LenOne world units (0.05), life, bloom and world_energy in
\* units of 1/LifeOne, angles in milliradians, camera-space coordinates in
\* units of 1/(LenOne * PitchOne).
LenOne == 20
LifeOne == 1000
\* flowers.py 21-25, main.py 251: FlowerField(lanes=12, lane_y=-1.35,
\* depth_layers=14) with the default spacing and depth_repeat
FLOWER_SPACING == 1 * LenOne
FLOWER_DEPTH_REPEAT == 20 * LenOne
FLOWER_DRAW_LIMIT == 400
lanes == 12
lane_y == -27
depth_layers == 14
\* flowers.py 1170-1172: wave width in 1/1000 world units, ripple strength
\* in 1/LifeOne, ripple frequency in milliradians per length unit
WAVE_WIDTH == 900
RIPPLE_STRENGTH == 80
RIPPLE_FREQ == 60
\* main.py 19-27 and 235-241 (the debug window): the camera; cos and sin
\* of the 2.2 degree pitch over PitchOne; unit_scale in pixels per length
\* unit
width == 1280
height == 800
eye_depth == 70
unit_scale == 11
camera_height == 18
near_clip == 1
PitchOne == 10000
PitchCos == 9993
PitchSin == 384
\* pi in milliradians
Pi == 3142

\* max(lo, min(hi, v))
Clamp(v, lo, hi) == Max(lo, Min(hi, v))

\* int(): rounding toward zero
Trunc(n, d) == IF n >= 0 THEN n \div d ELSE -((-n) \div d)

\* math.sqrt on the grid: the largest r with r * r <= n, by bisection
RECURSIVE SqrtBetween(_, _, _)
SqrtBetween(n, lo, hi) ==
    IF hi - lo <= 1 THEN lo
    ELSE LET mid == (lo + hi) \div 2
         IN IF mid * mid <= n THEN SqrtBetween(n, mid, hi)
            ELSE SqrtBetween(n, lo, mid)

Sqrt(n) == SqrtBetween(n, 0, 46341)

\* math.sin of an angle in [0, pi], in 1/LifeOne: Bhaskara's rational
\* approximation 16a(pi-a) / (5 pi^2 - 4a(pi-a)), exact at 0, pi/6, pi/2,
\* 5pi/6 and pi and within 0.002 elsewhere
SinArc(a) ==
    LET q == a * (Pi - a)
    IN (((16 * q) \div 40) * LifeOne) \div ((5 * Pi * Pi - 4 * q) \div 40)

\* math.sin of any angle in milliradians, in 1/LifeOne
Sin(a) ==
    LET r == a % (2 * Pi)
    IN IF r <= Pi THEN SinArc(r) ELSE -SinArc(r - Pi)

\* the largest r with r^5 <= n, for n up to 50^5
Root5(n) ==
    CHOOSE r \in 0..50 :
        /\ r * r * r * r * r <= n
        /\ (r + 1) * (r + 1) * (r + 1) * (r + 1) * (r + 1) > n

\* v ** 1.4 in 1/LifeOne: v * v^(2/5), the fifth root taken of
\* v^2 * 50^5 / 1000^2 so that 0 and LifeOne are fixed
Pow14(v) == (v * Root5((625 * v * v) \div 2)) \div 50

\* depth of layer k: (k / 13) ** 1.7 * depth_repeat (flowers.py 1149-1151)
LayerZ == <<0, 5, 17, 33, 54, 79, 107, 140, 175, 214, 256, 301, 349, 400>>

\* x of lane i, 0-based (flowers.py 1145-1148)
LaneX(i) == -(((lanes - 1) * FLOWER_SPACING) \div 2) + i * FLOWER_SPACING

\* no petal of a ring has been generated
NoTips == [inner |-> None, outer |-> None]

\* Flower.__init__ (flowers.py 51-96) as FlowerField.__init__ calls it: not
\* alive, nothing latched; bloom_t is the bloom_t of the flower's latest
\* rose head (None before the first), tip the height of the tip vertices
\* of its inner and outer petals above head_y, drawn what its latest draw
\* emitted
Flower(x, z) ==
    [x |-> x, y |-> lane_y, z |-> z, life |-> 0, bloom_max |-> 0,
     bloom_t |-> None, tip |-> NoTips, drawn |-> {}]

\* t ** 1.7 for t in [0, 1], both in 1/PowOne: t * t^0.7, the exponent
\* 0.7 taken as 1/2 + 1/8 + 1/16 + 1/128 + 1/256 by repeated square roots
PowOne == 10000
Pow17(t) ==
    LET s1 == Sqrt(t * PowOne)
        s2 == Sqrt(s1 * PowOne)
        s3 == Sqrt(s2 * PowOne)
        s4 == Sqrt(s3 * PowOne)
        s5 == Sqrt(s4 * PowOne)
        s6 == Sqrt(s5 * PowOne)
        s7 == Sqrt(s6 * PowOne)
        s8 == Sqrt(s7 * PowOne)
        p1 == (s1 * s3) \div PowOne
        p2 == (p1 * s4) \div PowOne
        p3 == (p2 * s7) \div PowOne
        p4 == (p3 * s8) \div PowOne
    IN (t * p4) \div PowOne

\* flowers.py 1146: max(1, min(depth_layers, int(depth_repeat // spacing)))
MaxLayers(n_layers) ==
    Max(1, Min(n_layers, FLOWER_DEPTH_REPEAT \div FLOWER_SPACING))

\* flowers.py 1150-1151: z of layer k of m, rounded to the length grid;
\* LayerDepth(k, 14) = LayerZ[k + 1]
LayerDepth(k, m) ==
    LET d == Max(1, m - 1)
        t == (2 * k * PowOne + d) \div (2 * d)
    IN (Pow17(t) * FLOWER_DEPTH_REPEAT + PowOne \div 2) \div PowOne

\* random.uniform(-0.06, 0.06) added to x (line 1153), on the length grid:
\* pattern 0 is no jitter, pattern 1 spreads -1, 0, 1 over the pool
Jitter(pattern, i, k) == IF pattern = 0 THEN 0 ELSE ((i + k) % 3) - 1

\* the cap left out
CapPool_Uncapped(pool) == pool

\* flowers.py 1160-1161: the pool is cut to FLOWER_DRAW_LIMIT flowers
CapPool(pool) ==
    IF Len(pool) > FLOWER_DRAW_LIMIT THEN SubSeq(pool, 1, FLOWER_DRAW_LIMIT)
    ELSE pool

\* FlowerField.__init__ (flowers.py 1134-1161) with the default spacing and
\* depth_repeat: lane by lane, each lane layer by layer, then the cap
FlowerFieldInit(n_lanes, n_layers, pattern) ==
    LET m == MaxLayers(n_layers)
        x_start == -(((n_lanes - 1) * FLOWER_SPACING) \div 2)
    IN CapPool([idx \in 1..(n_lanes * m) |->
                   LET i == (idx - 1) \div m
                       k == (idx - 1) % m
                   IN Flower(x_start + i * FLOWER_SPACING + Jitter(pattern, i, k),
                             LayerDepth(k, m))])

\* max(0, min(1, z / depth_repeat))
DepthNorm(z) == Clamp((z * LifeOne) \div FLOWER_DEPTH_REPEAT, 0, LifeOne)

\* FlowerField.update 1175-1187: the wavefront and the flower's distance
\* from the wave origin times depth_repeat, both in 1/1000 world units
WaveFront(world_energy) ==
    (world_energy * FLOWER_DEPTH_REPEAT * 12) \div (10 * LenOne)

\* line 1180, with self.lanes
max_x == Max(1, ((field_init.lanes - 1) * FLOWER_SPACING) \div 2)

WaveReach(f) ==
    LET dx == (Abs(f.x) * LifeOne) \div max_x
        dz == (f.z * LifeOne) \div FLOWER_DEPTH_REPEAT
    IN (Sqrt(dx * dx + dz * dz) * FLOWER_DEPTH_REPEAT) \div LenOne

\* the sign of raw reversed: the wave comes in from the far end
Envelope_Reversed(f, world_energy) ==
    Clamp(((WaveReach(f) - WaveFront(world_energy)) * LifeOne)
          \div WAVE_WIDTH, 0, LifeOne)

\* FlowerField.update 1190-1191: the primary envelope, raw clamped
Envelope(f, world_energy) ==
    Clamp(((WaveFront(world_energy) - WaveReach(f)) * LifeOne)
          \div WAVE_WIDTH, 0, LifeOne)

\* the echo runs 1.5 units ahead of the wave instead of behind it
Echo_Leading(f, world_energy) ==
    Clamp(((WaveFront(world_energy) - WaveReach(f) + 1500) * LifeOne)
          \div 1200, 0, LifeOne)

\* FlowerField.update 1194-1200: the secondary echo wave, 1.5 units behind
\* the front
Echo(f, world_energy) ==
    Clamp(((WaveFront(world_energy) - WaveReach(f) - 1500) * LifeOne)
          \div 1200, 0, LifeOne)

\* FlowerField.update 1202: max(life_target, echo * 0.35)
WithEcho(f, world_energy) ==
    Max(Envelope(f, world_energy), (Echo(f, world_energy) * 35) \div 100)

\* FlowerField.update 1194-1209: echo and ripple added to the envelope,
\* before the final clamp
WaveTarget(f, world_energy) ==
    LET ripple == (RIPPLE_STRENGTH
                   * Sin(f.z * RIPPLE_FREQ - world_energy * 6)) \div LifeOne
    IN WithEcho(f, world_energy) + ripple

\* the final clamp and the power after it left out
LifeTarget_NoClamp(f, world_energy) == WaveTarget(f, world_energy)

\* FlowerField.update 1212-1215: the final clamp, then ** 1.4
LifeTarget(f, world_energy) ==
    Pow14(Clamp(WaveTarget(f, world_energy), 0, LifeOne))

\* FlowerField.update 1219-1226 for one flower: life, then Flower.update
\* (whose breath_offset, at most 0.02, is below the length grid), then y
FlowerFieldUpdateOne(f, world_energy) ==
    [f EXCEPT !.life = LifeTarget(f, world_energy),
              !.y = (lane_y * (LifeOne - (35 * Min(LifeOne,
                         (f.z * LifeOne) \div FLOWER_DEPTH_REPEAT)) \div 100))
                    \div LifeOne]

\* FlowerField.update: every flower of the pool
FlowerFieldUpdate(pool, world_energy) ==
    [i \in 1..Len(pool) |-> FlowerFieldUpdateOne(pool[i], world_energy)]

\* main.py 53-70: world_to_camera, in units of 1/(LenOne * PitchOne)
world_to_camera(p) ==
    LET y_rel == p.y - camera_height
    IN [x_cam |-> p.x * PitchOne,
        y_cam |-> y_rel * PitchCos + p.z * PitchSin,
        z_cam |-> -y_rel * PitchSin + p.z * PitchCos]

\* eye_depth + z_cam (projection.py 20, flowers.py 1273)
TotalDepth(p) == eye_depth * PitchOne + world_to_camera(p).z_cam

\* `<` for `<=`: a point in the near plane itself is projected
BehindNearPlane_Strict(total_depth, near) == total_depth < near * PitchOne

\* projection.py 21: the point is at or behind the near plane
BehindNearPlane(total_depth, near) == total_depth <= near * PitchOne

\* the None that project_off_axis returns
NoProjection == [pixel_x |-> None, pixel_y |-> None, scale |-> None]

\* projection.py 1-35 with return_scale=True, as main.py's project_wrapper
\* calls it: None behind the near plane, else pixels and scale (the ratio
\* and the scale in 1/LifeOne)
project_off_axis(p, head, near) ==
    LET cam == world_to_camera(p)
        total_depth == eye_depth * PitchOne + cam.z_cam
        ratio == (eye_depth * PitchOne * LifeOne) \div total_depth
        screen_x_virtual == head.x * LifeOne + (p.x - head.x) * ratio
        screen_y_virtual ==
            head.y * LifeOne
            + ((cam.y_cam \div PitchOne - head.y) * ratio)
    IN IF BehindNearPlane(total_depth, near) THEN NoProjection
       ELSE [pixel_x |-> Trunc((width \div 2) * LifeOne
                               + screen_x_virtual * unit_scale, LifeOne),
             pixel_y |-> Trunc((height \div 2) * LifeOne
                               - screen_y_virtual * unit_scale, LifeOne),
             scale |-> ratio * unit_scale * LenOne]

\* Flower._draw_neon_stem (flowers.py 376-487): the parts it emits.  The
\* six points of the stem curve are at heights y + height * i / 5.
draw_neon_stem(f, head) ==
    LET base_proj == project_off_axis([x |-> f.x, y |-> f.y, z |-> f.z],
                                      head, near_clip)
        g_alpha == Min(8, (20 * f.life) \div LifeOne)
                   * (LifeOne - (DepthNorm(f.z) * 7) \div 10)
        stem_height == (55 * LenOne) \div 100 + (15 * LenOne * f.life)
                                               \div (100 * LifeOne)
        points == {i \in 0..5 :
                     project_off_axis([x |-> f.x,
                                       y |-> f.y + (stem_height * i) \div 5,
                                       z |-> f.z], head, near_clip) # NoProjection}
    IN IF f.life <= 10 THEN {}
       ELSE (IF base_proj # NoProjection /\ g_alpha > LifeOne
             THEN {"ground_glow"} ELSE {})
            \cup (IF Cardinality(points) >= 2 THEN {"stem"} ELSE {})

\* flowers.py 674-676: base delay 0.25 plus the depth delay
TotalDelay(f) == 250 + Min(150, (DepthNorm(f.z) * 2) \div 10)

\* flowers.py 681-682: (life - total_delay) / (1 - total_delay), clamped
BloomProgress(f) ==
    Clamp(((f.life - TotalDelay(f)) * LifeOne) \div (LifeOne - TotalDelay(f)),
          0, LifeOne)

\* the latch removed: bloom follows life
Bloom_NoLatch(f) ==
    IF f.life < TotalDelay(f) THEN [bloom_t |-> 0, bloom_max |-> f.bloom_max]
    ELSE [bloom_t |-> BloomProgress(f), bloom_max |-> BloomProgress(f)]

\* flowers.py 678-686: bloom_t and the latch bloom_max
Bloom(f) ==
    IF f.life < TotalDelay(f) THEN [bloom_t |-> 0, bloom_max |-> f.bloom_max]
    ELSE [bloom_t |-> Max(f.bloom_max, BloomProgress(f)),
          bloom_max |-> Max(f.bloom_max, BloomProgress(f))]

\* flowers.py 692-722: openness_lift over the rise, hold and relax phases,
\* in 1/LifeOne
OpennessLift(bloom_t) ==
    IF bloom_t < 350
    THEN (700 * Sqrt(((bloom_t * LifeOne) \div 350) * LifeOne)) \div LifeOne
    ELSE IF bloom_t < 650
         THEN 700 + (150 * (((bloom_t - 350) * LifeOne) \div 300)) \div LifeOne
         ELSE 850 + (150 * (((bloom_t - 650) * LifeOne) \div 350)) \div LifeOne

\* flowers.py 884-894: current_gravity in 1/1000 world units, for a
\* gravity_factor and a depth_norm in 1/LifeOne
current_gravity(bloom_t, gravity_factor, depth_norm) ==
    IF bloom_t > 650
    THEN LET gt == ((bloom_t - 650) * LifeOne) \div 350
             smooth_g == (((gt * gt) \div LifeOne) * (3 * LifeOne - 2 * gt))
                         \div LifeOne
         IN (((smooth_g * 70 * gravity_factor) \div LifeOne)
             * (LifeOne - depth_norm \div 2)) \div (LifeOne * LifeOne)
    ELSE 0

\* flowers.py 813-877 and 929-946: the last vertex of a petal's edge
\* (t = 1) is its control point P3, rotated about the vertical axis, at
\* head_y + lift_max * 1.2 (inner) or head_y + lift_max * 0.85 (outer);
\* its height above head_y in 1/1000 world units.  Inner petals are
\* generated from bloom_t 0.15 on, outer ones from 0.30 on (772-780).
PetalTips(bloom_t) ==
    [inner |-> IF bloom_t < 150 THEN None
               ELSE (((500 * OpennessLift(bloom_t)) \div LifeOne) * 12) \div 10,
     outer |-> IF bloom_t < 300 THEN None
               ELSE (((400 * OpennessLift(bloom_t)) \div LifeOne) * 85) \div 100]

\* Flower._draw_neon_rose_head (flowers.py 635-1031): the early returns,
\* then the bloom; petals are emitted from bloom_t 0.15 on (line 772-777)
draw_neon_rose_head(f, head) ==
    LET proj == project_off_axis([x |-> f.x, y |-> f.y, z |-> f.z],
                                 head, near_clip)
        b == Bloom(f)
    IN IF f.z * 10 > FLOWER_DEPTH_REPEAT * 9 THEN [f EXCEPT !.drawn = {}]
       ELSE IF proj = NoProjection THEN [f EXCEPT !.drawn = {}]
       ELSE IF proj.scale < 150 THEN [f EXCEPT !.drawn = {}]
       ELSE IF f.life < 50 THEN [f EXCEPT !.drawn = {}]
       ELSE [f EXCEPT !.bloom_t = b.bloom_t,
                      !.bloom_max = b.bloom_max,
                      !.tip = PetalTips(b.bloom_t),
                      !.drawn = IF b.bloom_t >= 150 THEN {"rose_head"}
                                ELSE {}]

\* Flower.draw (flowers.py 286-373): early exit, projection, screen
\* culling, then the stem and the rose head
FlowerDraw(f, head) ==
    LET proj == project_off_axis([x |-> f.x, y |-> f.y, z |-> f.z],
                                 head, near_clip)
        rose == draw_neon_rose_head(f, head)
    IN IF f.life <= 10 THEN [f EXCEPT !.drawn = {}]
       ELSE IF proj = NoProjection THEN [f EXCEPT !.drawn = {}]
       ELSE IF \/ proj.pixel_x < -100 \/ proj.pixel_x > width + 100
               \/ proj.pixel_y < -100 \/ proj.pixel_y > height + 100
            THEN [f EXCEPT !.drawn = {}]
       ELSE [rose EXCEPT !.drawn = draw_neon_stem(f, head) \cup rose.drawn]

\* FlowerField.draw 1267-1280: the item of flower n of the pool
Item(pool, n) ==
    LET p == [x |-> pool[n].x, y |-> pool[n].y, z |-> pool[n].z]
    IN [z_cam |-> world_to_camera(p).z_cam, total_depth |-> TotalDepth(p),
        f |-> n]

\* equal keys in reverse order of insertion
SortsBefore_TiesLast(a, b) ==
    a.z_cam > b.z_cam \/ (a.z_cam = b.z_cam /\ a.f > b.f)

\* list.sort(key=z_cam, reverse=True) (line 1284) is stable: item a ends up
\* before item b when its key is larger, or equal and a was appended first
SortsBefore(a, b) ==
    a.z_cam > b.z_cam \/ (a.z_cam = b.z_cam /\ a.f < b.f)

\* the list in which each item stands at its rank
Ranked(its, rank) ==
    [r \in 1..Cardinality(DOMAIN rank) |->
        its[CHOOSE i \in DOMAIN rank : rank[i] = r]]

\* the rank of each kept item: one more than the number of kept items that
\* sort before it
RankOf(its, kept) ==
    [i \in kept |->
        1 + Cardinality({j \in kept : SortsBefore(its[j], its[i])})]

\* FlowerField.draw 1265-1284: the items of the first n flowers of the
\* pool, those at or behind the near plane left out, sorted far to near
SortedItems(pool, n) ==
    LET its == [i \in 1..n |-> Item(pool, i)]
        kept == {i \in 1..n : its[i].total_depth > near_clip * PitchOne}
    IN Ranked(its, RankOf(its, kept))

\* FlowerField.draw 1287-1302: Flower.draw for the first FLOWER_DRAW_LIMIT
\* items; a flower that is not drawn emits nothing
FlowerFieldDraw(pool, sorted, head) ==
    [i \in 1..Len(pool) |->
        IF \E k \in 1..Min(Len(sorted), FLOWER_DRAW_LIMIT) : sorted[k].f = i
        THEN FlowerDraw(pool[i], head)
        ELSE [pool[i] EXCEPT !.drawn = {}]]

(* --------------------------- message renderer ------------------------- *)
\* src/message_renderer.py.  Times in 1/TimeOne s, alpha in 1/AlphaOne.
TimeOne == 2
AlphaOne == 100
fade_in_duration == 1 * TimeOne
fade_out_duration == 1 * TimeOne

\* an entry of the list: start and pause in seconds, duration in 1/TimeOne s
Msg(start, duration, pause) ==
    [start |-> start * TimeOne, duration |-> duration,
     pause |-> pause * TimeOne]

\* _create_message_list
messages ==
    <<
       Msg(7, 7, 0), Msg(12, 7, 0), Msg(26, 8, 0), Msg(32, 10, 0),
       Msg(72, 8, 0), Msg(78, 10, 3), Msg(85, 8, 0), Msg(108, 10, 0),
       Msg(115, 2, 0), Msg(148, 8, 0), Msg(160, 6, 3), Msg(168, 4, 0),
       Msg(176, 4, 0), Msg(185, 8, 0), Msg(191, 6, 0), Msg(195, 8, 0),
       Msg(201, 8, 0), Msg(207, 8, 0), Msg(213, 6, 0), Msg(218, 8, 0),
       Msg(225, 10, 0), Msg(232, 8, 0), Msg(238, 8, 0), Msg(244, 12, 0),
       Msg(252, 10, 0), Msg(259, 10, 0), Msg(266, 8, 0), Msg(272, 12, 0),
       Msg(278, 6, 0), Msg(283, 8, 0), Msg(289, 6, 0), Msg(294, 6, 0),
       Msg(299, 8, 0), Msg(305, 10, 3), Msg(311, 6, 0), Msg(316, 8, 0),
       Msg(322, 8, 0), Msg(328, 10, 0), Msg(334, 10, 0), Msg(341, 10, 0),
       Msg(348, 6, 0), Msg(353, 8, 0), Msg(359, 10, 0), Msg(366, 8, 0),
       Msg(372, 10, 0), Msg(379, 8, 0), Msg(385, 6, 0), Msg(390, 6, 0),
       Msg(395, 6, 0), Msg(400, 8, 0), Msg(406, 8, 0), Msg(412, 8, 0)
    >>

\* the renderer's fields, and the states the call at hand has assigned
MessageState ==
    [current_message_index |-> current_message_index,
     message_timer |-> message_timer,
     message_state |-> message_state,
     current_alpha |-> current_alpha,
     trace |-> <<>>]

\* line 123
msg_end_time(msg) ==
    msg.start + msg.duration + fade_in_duration + fade_out_duration + msg.pause

\* the while loop of lines 121-138 leaves the index at the first message,
\* from the current one on, that has not finished at total_time, or at
\* len(messages); indices count from 0 as in the source
SkipFinished(index, total_time) ==
    LET open == { i \in index..(Len(messages) - 1) :
                    total_time < msg_end_time(messages[i + 1]) }
    IN  IF open = {} THEN Max(index, Len(messages))
        ELSE CHOOSE i \in open : \A j \in open : i <= j

\* any message that has not finished starts at once
MessageDue_Early(msg, total_time) == TRUE

\* lines 125-127: the message at the index has started
MessageDue(msg, total_time) == total_time >= msg.start

\* lines 119-138: idle, the next message is looked for
MessageLookup(r, total_time) ==
    IF r.message_state # "idle" THEN r
    ELSE
        LET i == SkipFinished(r.current_message_index, total_time)
            r1 == [r EXCEPT !.current_message_index = i]
        IN  IF i < Len(messages) /\ MessageDue(messages[i + 1], total_time)
            THEN [r1 EXCEPT !.message_state = "fading_in",
                            !.message_timer = 0,
                            !.current_alpha = 0,
                            !.trace = Append(@, "fading_in")]
            ELSE r1

\* lines 140-163: the animation of the state at hand
MessageAnimate(r, dt) ==
    LET t == r.message_timer + dt
        r1 == [r EXCEPT !.message_timer = t]
    IN  CASE r.message_state = "fading_in" ->
                LET r2 == [r1 EXCEPT !.current_alpha =
                              Min(AlphaOne, (t * AlphaOne) \div fade_in_duration)]
                IN  IF t >= fade_in_duration
                    THEN [r2 EXCEPT !.message_state = "showing",
                                    !.message_timer = 0,
                                    !.trace = Append(@, "showing")]
                    ELSE r2
          [] r.message_state = "showing" ->
                IF t >= messages[r.current_message_index + 1].duration
                THEN [r1 EXCEPT !.message_state = "fading_out",
                                !.message_timer = 0,
                                !.trace = Append(@, "fading_out")]
                ELSE r1
          [] r.message_state = "fading_out" ->
                LET r2 == [r1 EXCEPT !.current_alpha =
                              Max(0, AlphaOne - (t * AlphaOne) \div fade_out_duration)]
                IN  IF t >= fade_out_duration
                    THEN [r2 EXCEPT !.current_message_index = @ + 1,
                                    !.message_state = "idle",
                                    !.current_alpha = 0,
                                    !.trace = Append(@, "idle")]
                    ELSE r2
          [] OTHER -> r

\* MessageRenderer.update(dt, total_time)
MessageRendererUpdate(r, dt, total_time) ==
    MessageAnimate(MessageLookup(r, total_time), dt)

(* ---------------------------- specification --------------------------- *)
\* the state after main's set-up (lines 230-266), field apart
InitDirector ==
    /\ world_state = WORLD_DORMANT
    /\ awakening_time = 0
    /\ intro_time = 0
    /\ room_energy = 0
    /\ smile_start_time = None
    /\ scene_ready = FALSE
    /\ frames_rendered = 0
    /\ smile_strength = 0
    /\ baseline = None
    /\ calibration_start_time = None
    /\ is_calibrated = FALSE
    /\ calibration_sample_count = 0
    /\ text_state = STATE_HIDDEN
    /\ animation_start_time = None
    /\ fadeout_requested = FALSE
    /\ detected = FALSE
    /\ landmarks = NoLandmarks
    /\ tracker_pc = "process"
    /\ tracker_results = NoLandmarks
    /\ tracker_frames = 0
    /\ frame_landmarks = NoLandmarks
    /\ running = TRUE
    /\ cap_open = TRUE
    /\ stop_pc = "loop"
    /\ stop_frames = None
    /\ draw_outcome = "none"
    /\ current_message_index = 0
    /\ message_timer = 0
    /\ message_state = "idle"
    /\ current_alpha = 0
    /\ message_time = 0
    /\ message_trace = <<>>

\* with the field as FlowerField.__init__ leaves it, two of its flowers;
\* `running` is never cleared before shutdown, so the thread's `while` test
\* always passes and the thread is taken to be in its iteration throughout
InitMain ==
    /\ InitDirector
    /\ flowers = <<Flower(LaneX(6), LayerZ[3]), Flower(LaneX(6), LayerZ[8])>>
    /\ items = <<>>
    /\ field_energy = None
    /\ proj_call = <<>>
    /\ field_init = [lanes |-> lanes, depth_layers |-> depth_layers]

Init == InitMain /\ thread_pc = "iterate"

\* the whole run, dormant through alive, with few tracker iterations: the
\* time spent DORMANT and the time spent ALIVE are bounded; the frame that
\* leaves DORMANT and the frames of the awakening, however long, are not
WithinRun ==
    /\ (world_state = WORLD_DORMANT /\ world_state' = WORLD_DORMANT)
       => intro_time' <= MaxIntro
    /\ world_state = WORLD_ALIVE => intro_time' - awakening_time' <= MaxIntro
    /\ tracker_frames' <= MaxTrackerFrames
    /\ calibration_sample_count' <= MaxSamples

Next ==
    \/ \E dt \in DtSet : Frame(dt) /\ WithinRun
    \/ \E results \in TrackerResults : TrackerDetect(results) /\ WithinRun
    \/ TrackerStore /\ UNCHANGED stopVars

Spec == Init /\ [][Next]_vars

\* the time up to the awakening, with more tracker iterations (a face that
\* is found, lost and found again)
WithinFace ==
    /\ intro_time <= MaxFaceIntro
    /\ tracker_frames <= MaxFaceFrames
    /\ calibration_sample_count <= MaxFaceSamples

NextFace ==
    \/ \E dt \in FaceDtSet : Frame(dt) /\ WithinFace'
    \/ \E results \in TrackerResults : TrackerDetect(results) /\ WithinFace'
    \/ TrackerStore /\ UNCHANGED stopVars

SpecFace == Init /\ [][NextFace]_vars

\* the same with one more tracker iteration: a face found, smiling, lost
\* and found again
WithinLost ==
    /\ intro_time <= MaxLostIntro
    /\ tracker_frames <= MaxLostFrames
    /\ calibration_sample_count <= MaxLostSamples

NextLost ==
    \/ \E dt \in LostDtSet : Frame(dt) /\ WithinLost'
    \/ \E results \in TrackerResults : TrackerDetect(results) /\ WithinLost'
    \/ TrackerStore /\ UNCHANGED stopVars

SpecLost == Init /\ [][NextLost]_vars

\* the run up to ALIVE with a main loop that keeps running: every frame
\* takes a positive time (LiveDtSet), and a frame is always possible while
\* AWAKENING -- the bounds stop the loop only while DORMANT (time, samples)
\* and once ALIVE
WithinLive ==
    /\ world_state # WORLD_ALIVE
    /\ world_state' # WORLD_ALIVE => intro_time' - awakening_time' <= MaxLiveIntro
    /\ tracker_frames' <= MaxLiveFrames
    /\ world_state = WORLD_DORMANT => calibration_sample_count' <= MaxLiveSamples

FrameLive == \E dt \in LiveDtSet : Frame(dt) /\ WithinLive

NextLive ==
    \/ FrameLive
    \/ \E results \in TrackerResults : TrackerDetect(results) /\ WithinLive
    \/ TrackerStore /\ UNCHANGED stopVars

\* `while running` (main.py 268): the loop is not left and clock.tick returns
SpecLive == Init /\ [][NextLive]_vars /\ WF_vars(FrameLive)

\* the field alone, under every energy and head position.  Pools are drawn
\* from the sites FlowerField.__init__ lays out: lane 6 (x = 0.5) and lane
\* 11 (x = 5.5), with and without a jitter of one length unit, at the
\* layers 0, 2, 7 and 13.
PoolSize == 2
SiteLanes == {6, 11}
SiteLayers == {0, 2, 7, 13}
SiteJitter == {0, 1}
Sites ==
    { Flower(LaneX(i) + j, LayerZ[k + 1]) :
        i \in SiteLanes, k \in SiteLayers, j \in SiteJitter }
Pools ==
    { pool \in [1..PoolSize -> Sites] :
        \A i, j \in 1..PoolSize : i # j => pool[i] # pool[j] }
\* world_energy arguments, in 1/LifeOne
EnergySet == {0, 85, 120, 330, 530, 1000}
\* head_world_x, head_world_y in length units
HeadSet == { [x |-> 0, y |-> 0], [x |-> 24, y |-> 18], [x |-> -24, y |-> -18] }

InitField ==
    /\ InitDirector
    /\ flowers \in Pools
    /\ items = <<>>
    /\ field_energy = None
    /\ proj_call = <<>>
    /\ field_init = [lanes |-> lanes, depth_layers |-> depth_layers]
    /\ thread_pc = "iterate"

\* flower_field.update(dt, head_world_x, head_world_y, world_energy)
FieldUpdate(world_energy) ==
    /\ flowers' = FlowerFieldUpdate(flowers, world_energy)
    /\ field_energy' = world_energy
    /\ UNCHANGED <<items, proj_call, field_init, draw_outcome, mainVars,
                   detectorVars, textVars, trackerVars, stopVars, msgVars>>

\* flower_field.draw(screen, glow_surface, project_wrapper, screen_size)
\* with the head at `head`
FieldDraw(head) ==
    /\ items' = SortedItems(flowers, Len(flowers))
    /\ flowers' = FlowerFieldDraw(flowers, items', head)
    /\ draw_outcome' = "sorted"
    /\ UNCHANGED <<field_energy, proj_call, field_init, mainVars,
                   detectorVars, textVars, trackerVars, stopVars, msgVars>>

NextField ==
    \/ \E world_energy \in EnergySet : FieldUpdate(world_energy)
    \/ \E head \in HeadSet : FieldDraw(head)

SpecField == InitField /\ [][NextField]_vars

\* the detector alone: update called with any landmarks and any times, in
\* any order (a wide-open mouth of metric 1500 and closed lips, v = 0, are
\* added to the tracker's results)
MaxDetSamples == 3
DetLandmarkSet == TrackerResults \cup { Landmark(3000, 2), Landmark(100, 0) }
DetTimeSet == {0, 7, 20, 45}

\* smile_detector.update(landmarks, current_time)
DetectorUpdate(lm, current_time) ==
    /\ calibration_sample_count < MaxDetSamples
    /\ \E d \in {SmileDetectorUpdate(DetectorState, lm, current_time)} :
          /\ smile_strength' = d.smile_strength
          /\ baseline' = d.baseline
          /\ calibration_start_time' = d.calibration_start_time
          /\ is_calibrated' = d.is_calibrated
          /\ calibration_sample_count' = d.calibration_sample_count
    /\ frame_landmarks' = lm
    /\ UNCHANGED <<world_state, awakening_time, intro_time, room_energy,
                   smile_start_time, scene_ready, frames_rendered, textVars,
                   trackerVars, fieldVars, msgVars, stopVars>>

NextDetector ==
    \E lm \in DetLandmarkSet, current_time \in DetTimeSet :
        DetectorUpdate(lm, current_time)

SpecDetector == Init /\ [][NextDetector]_vars

\* the text alone: update and start_fadeout called in any order, with any
\* intro_time and awakening_time (in ticks), repeated or going backwards;
\* intro_time and awakening_time hold the arguments of the latest update
TextIntroSet == {0, 49, 50, 58, 66, 67, 80}
TextAwakeningSet == {0, 29, 30, 35, 41, 42, 120}

\* smile_text.update(dt, intro_time, awakening_time)
TextUpdate(intro, awakening) ==
    /\ \E t \in {SmileTextUpdate(TextState, intro, awakening)} :
          /\ text_state' = t.state
          /\ animation_start_time' = t.animation_start_time
          /\ fadeout_requested' = t.fadeout_requested
    /\ intro_time' = intro
    /\ awakening_time' = awakening
    /\ UNCHANGED <<world_state, room_energy, smile_start_time, scene_ready,
                   frames_rendered, frame_landmarks, detectorVars,
                   trackerVars, fieldVars, msgVars, stopVars>>

\* smile_text.start_fadeout(awakening_time)
TextStartFadeout ==
    /\ \E t \in {StartFadeout(TextState)} :
          /\ text_state' = t.state
          /\ animation_start_time' = t.animation_start_time
          /\ fadeout_requested' = t.fadeout_requested
    /\ UNCHANGED <<mainVars, detectorVars, trackerVars, fieldVars, msgVars,
                   stopVars>>

NextText ==
    \/ \E intro \in TextIntroSet, awakening \in TextAwakeningSet :
          TextUpdate(intro, awakening)
    \/ TextStartFadeout

SpecText == Init /\ [][NextText]_vars

\* shutdown: the main loop is left at any moment and tracker.stop() runs
\* against the tracking thread, whose `while self.running` test is a step
\* of its own here.  A few frames and tracker iterations come first.
StopDtSet == {3}
MaxStopIntro == 6
MaxStopFrames == 2

\* HandTracking.__init__ has started the thread: it is at its first test
InitStop == InitMain /\ thread_pc = "test"

\* _loop, `while self.running`: the body is entered or the thread exits
ThreadTest ==
    /\ thread_pc = "test"
    /\ thread_pc' = IF running THEN "iterate" ELSE "exited"
    /\ UNCHANGED <<running, cap_open, stop_pc, stop_frames, mainVars,
                   detectorVars, textVars, trackerVars, fieldVars, msgVars>>

\* while `running` is set the number of iterations is bounded; once stop()
\* has cleared it the thread runs freely
StopWithin == running => tracker_frames < MaxStopFrames

\* cap.read() returns ret = False: sleep, then `continue`
ThreadReadFail ==
    /\ thread_pc = "iterate"
    /\ tracker_pc = "process"
    /\ StopWithin
    /\ tracker_frames' = tracker_frames + 1
    /\ thread_pc' = "test"
    /\ UNCHANGED <<detected, landmarks, tracker_pc, tracker_results, running,
                   cap_open, stop_pc, stop_frames, mainVars, detectorVars,
                   textVars, fieldVars, msgVars>>

\* cap.read() returns a frame, which is processed
ThreadDetect(results) ==
    /\ thread_pc = "iterate"
    /\ StopWithin
    /\ TrackerDetect(results)

\* landmarks are stored; sleep, then back to the test
ThreadStore ==
    /\ thread_pc = "iterate"
    /\ TrackerStore
    /\ thread_pc' = "test"
    /\ UNCHANGED <<running, cap_open, stop_pc, stop_frames>>

\* the join returns at once
Joined_NoWait == TRUE

\* thread.join() returns when _loop has returned
Joined == thread_pc = "exited"

\* one more iteration of the main loop
StopFrame ==
    /\ stop_pc = "loop"
    /\ \E dt \in StopDtSet : Frame(dt)
    /\ intro_time' <= MaxStopIntro

\* main.py 268, 392: the main loop is left and tracker.stop() is called
Quit ==
    /\ stop_pc = "loop"
    /\ stop_pc' = "signal"
    /\ UNCHANGED <<running, cap_open, thread_pc, stop_frames, mainVars,
                   detectorVars, textVars, trackerVars, fieldVars, msgVars>>

\* stop(): self.running = False
StopSignal ==
    /\ stop_pc = "signal"
    /\ running' = FALSE
    /\ stop_frames' = tracker_frames
    /\ stop_pc' = "join"
    /\ UNCHANGED <<cap_open, thread_pc, mainVars, detectorVars, textVars,
                   trackerVars, fieldVars, msgVars>>

\* stop(): self.thread.join()
StopJoin ==
    /\ stop_pc = "join"
    /\ Joined
    /\ stop_pc' = "release"
    /\ UNCHANGED <<running, cap_open, thread_pc, stop_frames, mainVars,
                   detectorVars, textVars, trackerVars, fieldVars, msgVars>>

\* stop(): self.cap.release()
StopRelease ==
    /\ stop_pc = "release"
    /\ cap_open' = FALSE
    /\ stop_pc' = "done"
    /\ UNCHANGED <<running, thread_pc, stop_frames, mainVars, detectorVars,
                   textVars, trackerVars, fieldVars, msgVars>>

ThreadStep ==
    \/ ThreadTest
    \/ ThreadReadFail
    \/ \E results \in TrackerResults : ThreadDetect(results)
    \/ ThreadStore

StopStep == StopSignal \/ StopJoin \/ StopRelease

NextStop == StopFrame \/ Quit \/ ThreadStep \/ StopStep

\* both threads are scheduled again and again, and cap.read() and
\* face_mesh.process() return
SpecStop ==
    InitStop /\ [][NextStop]_vars /\ WF_vars(ThreadStep) /\ WF_vars(StopStep)

\* the field as its constructor leaves it, for several lane and layer
\* counts (2, 12 or 30 lanes; depth_layers 0, 8, 14 or 25, so that max_layers
\* is 1, 8, 14 or 20 and 30 lanes pass the draw limit), then updated and
\* drawn
PoolLanes == {2, 12, 30}
PoolLayers == {0, 8, 14, 25}
PoolJitter == {0, 1}
PoolEnergySet == {0, 1000}
PoolHeadSet == { [x |-> 24, y |-> 18] }

InitPool ==
    /\ InitDirector
    /\ \E n_lanes \in PoolLanes, n_layers \in PoolLayers, pattern \in PoolJitter :
          /\ field_init = [lanes |-> n_lanes, depth_layers |-> n_layers]
          /\ flowers = FlowerFieldInit(n_lanes, n_layers, pattern)
    /\ items = <<>>
    /\ field_energy = None
    /\ proj_call = <<>>
    /\ thread_pc = "iterate"

NextPool ==
    \/ \E world_energy \in PoolEnergySet : FieldUpdate(world_energy)
    \/ \E head \in PoolHeadSet : FieldDraw(head)

SpecPool == InitPool /\ [][NextPool]_vars

\* project_off_axis alone, with the camera of main.py, over points around
\* the near plane and the screen plane: x, y, z in length units.  With
\* y = -267 and z = -80 the total depth is exactly 0.05, with y = 18 and
\* z = -69 it is 0.0524, with z = -70 it is 0.0024; y = 18, z = 0 lies in
\* the screen plane.
ProjPoints ==
    { [x |-> x, y |-> y, z |-> z] :
        x \in {-10, 0, 10, 60}, y \in {-267, -27, 18}, z \in {-80, -70, -69, 0, 140} }
\* near_clip arguments: none, main.py's 0.05, and 0.2
NearSet == {0, 1, 4}

ProjectCall(p, head, near) ==
    /\ proj_call' = <<[p |-> p, head |-> head, near |-> near,
                       out |-> project_off_axis(p, head, near)]>>
    /\ UNCHANGED <<flowers, items, field_energy, field_init, draw_outcome,
                   mainVars, detectorVars, textVars, trackerVars, stopVars,
                   msgVars>>

NextProj ==
    \E p \in ProjPoints, head \in HeadSet, near \in NearSet :
        ProjectCall(p, head, near)

SpecProj == Init /\ [][NextProj]_vars

\* MessageRenderer.update alone, called frame after frame: dt is 0, 0.5 or
\* 2.5 s, total_time stays or grows by 1, 20 or 150 s, up to 420 s (the
\* last message ends at 418 s)
MsgDtSet == {0, 1, 5}
MsgJumpSet == {0, 2, 40, 300}
MaxMsgTime == 840

MessageUpdate(dt, total_time) ==
    /\ total_time <= MaxMsgTime
    /\ LET r == MessageRendererUpdate(MessageState, dt, total_time)
       IN  /\ current_message_index' = r.current_message_index
           /\ message_timer' = r.message_timer
           /\ message_state' = r.message_state
           /\ current_alpha' = r.current_alpha
           /\ message_trace' = r.trace
    /\ message_time' = total_time
    /\ UNCHANGED <<mainVars, detectorVars, textVars, trackerVars, fieldVars,
                   stopVars>>

NextMsg ==
    \E dt \in MsgDtSet, jump \in MsgJumpSet :
        MessageUpdate(dt, message_time + jump)

SpecMsg == Init /\ [][NextMsg]_vars

\* FlowerField.draw when the entry module lacks the camera helpers and the
\* import of lines 1249-1253 raises ImportError.  The loop of the except
\* branch names head_x and head_y, which are neither parameters nor locals
\* of draw nor globals of flowers.py: with a flower in the pool and a
\* positive limit, line 1260 raises NameError before is_visible or
\* Flower.draw is called; with an empty pool the loop body never runs.
FallbackRaises(pool) == Len(pool) > 0 /\ FLOWER_DRAW_LIMIT > 0

FieldDrawNoHelpers ==
    /\ draw_outcome' = IF FallbackRaises(flowers) THEN "raised" ELSE "fallback"
    /\ UNCHANGED <<flowers, items, field_energy, proj_call, field_init,
                   mainVars, detectorVars, textVars, trackerVars, stopVars,
                   msgVars>>

\* the field of main.py, two of its flowers, or a field built with no lanes
InitFallback ==
    /\ InitDirector
    /\ \/ /\ flowers \in Pools
          /\ field_init = [lanes |-> lanes, depth_layers |-> depth_layers]
       \/ /\ flowers = FlowerFieldInit(0, depth_layers, 0)
          /\ field_init = [lanes |-> 0, depth_layers |-> depth_layers]
    /\ items = <<>>
    /\ field_energy = None
    /\ proj_call = <<>>
    /\ thread_pc = "iterate"

NextFallback ==
    \/ \E world_energy \in EnergySet : FieldUpdate(world_energy)
    \/ FieldDrawNoHelpers

SpecFallback == InitFallback /\ [][NextFallback]_vars

(* ------------------------------- claims ------------------------------- *)
\* a step of the main loop: the tracking thread's variables are untouched
\* (every frame changes intro_time or frames_rendered, so it never stutters)
IsFrame == UNCHANGED trackerVars

\* non-empty landmarks whose mouth aspect is outside [4.0, 2000.0]
BadLandmarks(lm) ==
    /\ lm # NoLandmarks
    /\ \/ compute_mouth_aspect(lm) < MetricMin
       \/ compute_mouth_aspect(lm) > MetricMax

\* C1: world_state only moves forward along DORMANT (0) -> AWAKENING (1) ->
\* ALIVE (2): in every step its value is unchanged or later in that order,
\* whatever the tracker, smile and dt inputs.
C1_WorldStateForward == [][world_state' >= world_state]_vars

\* ALIVE was reached and the face has since been lost
C1_Witness == world_state = WORLD_ALIVE /\ ~detected /\ frame_landmarks = NoLandmarks

\* C2: the Director leaves DORMANT only in a frame where the text was
\* VISIBLE, the face is detected, smile_strength is above SMILE_THRESHOLD
\* and the timer set in an earlier frame shows intro_time - smile_start_time
\* >= SMILE_SUSTAIN_DURATION; and the timer survives a DORMANT frame only if
\* that frame qualified, so the condition held in every frame since it was
\* set (the timer is never moved to another value).
C2_SustainedSmileOnly ==
    [][/\ (world_state = WORLD_DORMANT /\ world_state' # WORLD_DORMANT)
          => /\ text_state = STATE_VISIBLE
             /\ detected
             /\ smile_strength' > SMILE_THRESHOLD
             /\ smile_start_time # None
             /\ intro_time' - smile_start_time >= SMILE_SUSTAIN_DURATION
       /\ (IsFrame /\ world_state' = WORLD_DORMANT /\ smile_start_time' # None)
          => /\ text_state = STATE_VISIBLE
             /\ detected
             /\ smile_strength' > SMILE_THRESHOLD
       /\ smile_start_time # None => smile_start_time' \in {smile_start_time, None}
       /\ smile_start_time = None => smile_start_time' \in {intro_time', None}
      ]_vars

\* the state right after the triggering frame, a frame shorter than the
\* sustain duration: the smile was held over more than one frame
C2_Witness ==
    /\ world_state = WORLD_AWAKENING
    /\ fadeout_requested
    /\ awakening_time > 0
    /\ awakening_time < SMILE_SUSTAIN_DURATION
    /\ intro_time - smile_start_time < 2 * SMILE_SUSTAIN_DURATION

\* C3: while DORMANT, a frame in which no face is detected or
\* smile_strength is not above the threshold leaves smile_start_time = None
\* and the state DORMANT: time accumulated before the gap is dropped.
C3_GapResetsTimer ==
    [][(/\ IsFrame
        /\ world_state = WORLD_DORMANT
        /\ ~(detected /\ smile_strength' > SMILE_THRESHOLD))
       => (smile_start_time' = None /\ world_state' = WORLD_DORMANT)]_vars

\* a frame without a face while the text is visible and the strength is
\* still above the threshold: the timer is off
C3_Witness ==
    /\ world_state = WORLD_DORMANT
    /\ text_state = STATE_VISIBLE
    /\ frame_landmarks = NoLandmarks
    /\ ~detected
    /\ smile_strength > SMILE_THRESHOLD
    /\ smile_start_time = None

\* C4 (as claimed): loss of tracking does not block future detection.  For
\* smile_strength to rise again the detector must calibrate again, so after
\* every frame that processed a valid metric the calibration is complete
\* or under way.
C4_DetectionNotBlocked ==
    (frame_landmarks # NoLandmarks /\ ~BadLandmarks(frame_landmarks))
    => (is_calibrated \/ calibration_start_time # None)

\* C5 (as claimed): the Director never leaves DORMANT in a frame in which
\* is_calibrated is False.
C5_NoSmileBeforeFreeze ==
    [][(world_state = WORLD_DORMANT /\ world_state' # WORLD_DORMANT)
       => is_calibrated']_vars

\* C6 (as claimed): a frame whose metric is rejected is never the frame of
\* the transition DORMANT -> AWAKENING and never starts the sustain timer.
C6_BadFrameNeverCounts ==
    [][(IsFrame /\ BadLandmarks(landmarks) /\ world_state = WORLD_DORMANT)
       => /\ world_state' = WORLD_DORMANT
          /\ smile_start_time = None => smile_start_time' = None]_vars

\* C6 (amended): a frame whose metric is rejected leaves smile_strength as
\* it was; if that strength is not above the threshold the frame neither
\* triggers the transition nor leaves the timer running.
C6_BadFrameHolds ==
    [][(IsFrame /\ BadLandmarks(landmarks))
       => /\ smile_strength' = smile_strength
          /\ (world_state = WORLD_DORMANT /\ smile_strength <= SMILE_THRESHOLD)
             => (world_state' = WORLD_DORMANT /\ smile_start_time' = None)]_vars

\* the frame that triggered the awakening had a rejected metric
C6_Witness ==
    /\ BadLandmarks(frame_landmarks)
    /\ world_state = WORLD_AWAKENING
    /\ \A dt \in FaceDtSet : awakening_time <= dt

\* C7: SmileDetector.update with non-empty landmarks whose metric is outside
\* [4.0, 2000.0] leaves smile_strength, baseline, is_calibrated,
\* calibration_start_time and calibration_sample_count unchanged.
C7_InvalidFrameHolds ==
    [][(IsFrame /\ BadLandmarks(landmarks)) => UNCHANGED detectorVars]_vars

\* a rejected frame was processed by a calibrated detector with a nonzero
\* strength
C7_Witness ==
    /\ BadLandmarks(frame_landmarks)
    /\ is_calibrated
    /\ smile_strength > 0
    /\ calibration_sample_count > 0

\* C8 (as claimed): in the frame of the transition out of DORMANT
\* awakening_time is 0 and room_energy is 0.
C8_EnergyZeroAtTrigger ==
    [][(world_state = WORLD_DORMANT /\ world_state' # WORLD_DORMANT)
       => (awakening_time' = 0 /\ room_energy' = 0)]_vars

\* C8 (amended): in the frame of the transition awakening_time is reset and
\* then advanced by that frame's dt (clamped to AWAKEN_DURATION, which makes
\* the state ALIVE at once); room_energy and SmileText.update are computed
\* from that value.
C8_TriggerFrameAdvances ==
    [][(world_state = WORLD_DORMANT /\ world_state' # WORLD_DORMANT)
       => /\ awakening_time' = Min(intro_time' - intro_time, AWAKEN_DURATION)
          /\ room_energy' = ease(awakening_time')
          /\ world_state' = WORLD_ALIVE <=> awakening_time' = AWAKEN_DURATION
          /\ text_state' = STATE_FADING_OUT <=> awakening_time' >= fadeout_delay
      ]_vars

\* the state right after the triggering frame, a shortest one: the
\* awakening has already advanced
C8_Witness ==
    /\ world_state = WORLD_AWAKENING
    /\ awakening_time > 0
    /\ \A dt \in DtSet : awakening_time <= dt
    /\ room_energy = ease(awakening_time)
    /\ room_energy > 0

\* C9: after every frame DORMANT implies room_energy = 0 and ALIVE implies
\* room_energy = 1, whatever time has passed and whatever the tracker says.
C9_EnergyPinned ==
    /\ world_state = WORLD_DORMANT => room_energy = 0
    /\ world_state = WORLD_ALIVE => room_energy = EnergyOne

\* ALIVE with the text faded out and the smile gone
C9_Witness ==
    /\ world_state = WORLD_ALIVE
    /\ text_state = STATE_GONE
    /\ smile_strength < SMILE_THRESHOLD
    /\ room_energy = EnergyOne

\* C10: room_energy never decreases from one frame to the next, through
\* AWAKENING and into ALIVE: awakening_time only grows and, while
\* AWAKENING, room_energy = ease(min(awakening_time / 12, 1)).
C10_EnergyNonDecreasing ==
    [][/\ room_energy' >= room_energy
       /\ awakening_time' >= awakening_time
       /\ world_state' = WORLD_AWAKENING
          => room_energy' = ease(Min(awakening_time', EaseDen))]_vars

\* AWAKENING past its half, after several frames
C10_Witness ==
    /\ world_state = WORLD_AWAKENING
    /\ 2 * awakening_time > AWAKEN_DURATION
    /\ 2 * room_energy > EnergyOne
    /\ room_energy < EnergyOne

\* C11: awakening_time stays within [0, AWAKEN_DURATION] and ALIVE implies
\* awakening_time = AWAKEN_DURATION; it is 0 while DORMANT, grows by the
\* frame's dt in a frame that ends AWAKENING, is clamped to AWAKEN_DURATION
\* in the frame where the sum reaches or passes it (the frame that makes the
\* state ALIVE), and never changes once ALIVE.
C11_AwakeningTimeBounded ==
    /\ [](/\ awakening_time >= 0
          /\ awakening_time <= AWAKEN_DURATION
          /\ world_state = WORLD_DORMANT => awakening_time = 0
          /\ world_state = WORLD_ALIVE => awakening_time = AWAKEN_DURATION)
    /\ [][/\ world_state = WORLD_ALIVE => awakening_time' = awakening_time
          /\ world_state' = WORLD_AWAKENING
             => /\ awakening_time' = awakening_time + (intro_time' - intro_time)
                /\ awakening_time' < AWAKEN_DURATION
          /\ (world_state # WORLD_ALIVE /\ world_state' = WORLD_ALIVE)
             => awakening_time + (intro_time' - intro_time) >= AWAKEN_DURATION
         ]_vars

\* ALIVE entered by the triggering frame itself, a frame longer than the
\* whole awakening: the sum was clamped (the text began to fade out at
\* awakening_time = AWAKEN_DURATION)
C11_Witness ==
    /\ world_state = WORLD_ALIVE
    /\ awakening_time = AWAKEN_DURATION
    /\ text_state = STATE_FADING_OUT
    /\ animation_start_time = AWAKEN_DURATION

\* C12: once AWAKENING is entered and the loop keeps running with frame
\* times bounded below by a positive amount, the state eventually becomes
\* ALIVE, whatever the tracker publishes and whatever the smile does.
C12_AwakeningReachesAlive ==
    (world_state = WORLD_AWAKENING) ~> (world_state = WORLD_ALIVE)

\* during the awakening the face is lost and the smile has dropped below
\* the threshold
C12_Witness ==
    /\ world_state = WORLD_AWAKENING
    /\ awakening_time < AWAKEN_DURATION
    /\ ~detected
    /\ frame_landmarks = NoLandmarks
    /\ ~is_calibrated
    /\ smile_strength < SMILE_THRESHOLD

\* C13: for every flower, once the bloom_t computed by its rose head is
\* nonzero, the bloom_t of its later rose heads is never smaller, whatever
\* life does in between (dips below the bloom delay included).
C13_BloomNeverDecreases ==
    [][\A i \in 1..Len(flowers) :
          (flowers[i].bloom_t # None /\ flowers[i].bloom_t > 0)
          => flowers'[i].bloom_t >= flowers[i].bloom_t]_vars

\* C14: bloom_max of every flower stays within [0, 1] and never decreases
\* over any sequence of FlowerField.update and FlowerField.draw calls.
C14_BloomMaxLatched ==
    /\ [](\A i \in 1..Len(flowers) :
            flowers[i].bloom_max >= 0 /\ flowers[i].bloom_max <= LifeOne)
    /\ [][\A i \in 1..Len(flowers) :
            flowers'[i].bloom_max >= flowers[i].bloom_max]_vars

\* a rose head drawn with life past the delay but below its earlier peak:
\* the latch, not life, gives the bloom
C14_Witness ==
    \E i \in 1..Len(flowers) :
        /\ "rose_head" \in flowers[i].drawn
        /\ flowers[i].life >= TotalDelay(flowers[i])
        /\ flowers[i].bloom_t = flowers[i].bloom_max
        /\ BloomProgress(flowers[i]) < flowers[i].bloom_max
        /\ flowers[i].bloom_max < LifeOne

\* C15: after FlowerField.update with any world_energy in [0, 1], the life
\* of every flower is within [0, 1].
C15_LifeInRange ==
    \A i \in 1..Len(flowers) :
        flowers[i].life >= 0 /\ flowers[i].life <= LifeOne

\* an update after which the final clamp has cut one flower's target from
\* above and another's from below
C15_Witness ==
    /\ field_energy # None
    /\ \E i, j \in 1..Len(flowers) :
          /\ WaveTarget(flowers[i], field_energy) > LifeOne
          /\ flowers[i].life = LifeOne
          /\ WaveTarget(flowers[j], field_energy) < 0
          /\ flowers[j].life = 0

\* a step that is a FlowerField.draw call
IsFieldDraw == \E head \in HeadSet : FieldDraw(head)

\* the position of flower i of the pool
FlowerPoint(pool, i) == [x |-> pool[i].x, y |-> pool[i].y, z |-> pool[i].z]

\* C16: of two flowers at the same lateral position, the nearer one reaches
\* life 1.0 (ripple included) at an energy no higher than the farther one:
\* whenever the farther flower is at life 1.0, the nearer one is or has been
\* at 1.0 at some energy up to the present one.
C16_NearerBloomsFirst ==
    field_energy # None =>
        \A i, j \in 1..Len(flowers) :
            (/\ flowers[i].x = flowers[j].x
             /\ flowers[i].z < flowers[j].z
             /\ flowers[j].life = LifeOne)
            => \E e \in 0..field_energy :
                   LifeTarget(flowers[i], e) = LifeOne

\* C16 as it holds: of two flowers at the same lateral position, the nearer
\* one's primary envelope is at 1.0 whenever the farther one's is; the
\* envelope never falls as energy rises, so it reaches 1.0 no later.
C16_NearerEnvelopeFirst ==
    field_energy # None =>
        \A i, j \in 1..Len(flowers) :
            (/\ flowers[i].x = flowers[j].x
             /\ flowers[i].z < flowers[j].z
             /\ Envelope(flowers[j], field_energy) = LifeOne)
            => /\ Envelope(flowers[i], field_energy) = LifeOne
               /\ \A e \in EnergySet :
                     e >= field_energy
                     => Envelope(flowers[i], e) = LifeOne

\* both envelopes are full, the farther flower's life is 1.0 and the
\* nearer one's is not: the ripple holds it below
C16_Witness ==
    /\ field_energy # None
    /\ \E i, j \in 1..Len(flowers) :
          /\ flowers[i].x = flowers[j].x
          /\ flowers[i].z < flowers[j].z
          /\ Envelope(flowers[j], field_energy) = LifeOne
          /\ Envelope(flowers[i], field_energy) = LifeOne
          /\ flowers[j].life = LifeOne
          /\ flowers[i].life < LifeOne

\* C17: a flower the wavefront has not reached (wave_front - distance *
\* depth_repeat <= 0) has life 0 after FlowerField.update, and
\* FlowerField.draw draws nothing for it.
C17_AheadOfWaveDark ==
    [][\A i \in 1..Len(flowers') :
          (/\ field_energy' # None
           /\ WaveFront(field_energy') - WaveReach(flowers'[i]) <= 0)
          => /\ flowers'[i].life = 0
             /\ IsFieldDraw => flowers'[i].drawn = {}]_vars

\* C18: the list FlowerField.draw draws from is in non-increasing z_cam
\* order with ties in pool order and holds no flower at or behind the near
\* plane; a draw puts exactly the flowers in front of the near plane in
\* it, each under its own z_cam.
C18_DrawOrder ==
    /\ [](\A p, q \in 1..Len(items) :
            /\ items[p].total_depth > near_clip * PitchOne
            /\ p < q => /\ items[p].z_cam >= items[q].z_cam
                        /\ items[p].z_cam = items[q].z_cam
                           => items[p].f < items[q].f)
    /\ [][IsFieldDraw =>
            /\ {items'[p].f : p \in 1..Len(items')}
               = {i \in 1..Len(flowers) :
                    TotalDepth(FlowerPoint(flowers, i)) > near_clip * PitchOne}
            /\ \A p \in 1..Len(items') :
                  items'[p].z_cam
                  = world_to_camera(FlowerPoint(flowers, items'[p].f)).z_cam]_vars

\* two flowers of one layer, at the same camera depth, both alive and
\* drawn: the tie is kept in pool order
C18_Witness ==
    /\ Len(items) = 2
    /\ items[1].z_cam = items[2].z_cam
    /\ items[1].f = 1
    /\ \A i \in 1..Len(flowers) : "stem" \in flowers[i].drawn

\* C20: FlowerField.draw emits nothing -- no stem, no ground glow, no rose
\* head -- for a flower with z > 0.9 * depth_repeat.
C20_DistantFlowerCulled ==
    [][IsFieldDraw =>
          \A i \in 1..Len(flowers') :
              flowers'[i].z * 10 > FLOWER_DEPTH_REPEAT * 9
              => flowers'[i].drawn = {}]_vars

C21_PoolFixed ==
    /\ [](Len(flowers)
          = Min(field_init.lanes
                * Max(1, Min(field_init.depth_layers,
                             FLOWER_DEPTH_REPEAT \div FLOWER_SPACING)),
                FLOWER_DRAW_LIMIT))
    /\ [][/\ Len(flowers') = Len(flowers)
          /\ \A i \in 1..Len(flowers) :
                flowers'[i].x = flowers[i].x /\ flowers'[i].z = flowers[i].z]_vars

\* a pool cut to the draw limit (30 lanes of 14 layers), updated and drawn:
\* the draw list is sorted, the pool is not
C21_Witness ==
    /\ field_init.lanes * field_init.depth_layers > FLOWER_DRAW_LIMIT
    /\ Len(flowers) = FLOWER_DRAW_LIMIT
    /\ Len(items) = FLOWER_DRAW_LIMIT
    /\ items[1].f # 1
    /\ \E i \in 1..Len(flowers) : "stem" \in flowers[i].drawn

\* C22: after any sequence of SmileDetector.update calls -- landmarks
\* present, absent or with a rejected metric, any times in any order --
\* 0 <= smile_strength <= 1.
C22_StrengthInRange == smile_strength >= 0 /\ smile_strength <= StrengthOne

\* a calibrated detector fed a deviation of more than 150 from its
\* baseline (raw above 1.0, clamped) until the strength is nearly full
C22_Witness ==
    /\ is_calibrated
    /\ frame_landmarks # NoLandmarks
    /\ ~BadLandmarks(frame_landmarks)
    /\ Abs(compute_mouth_aspect(frame_landmarks) - baseline) > SmileScale
    /\ smile_strength * 100 > 98 * StrengthOne

\* C23: stop() clears `running`, waits for the tracking thread to exit and
\* only then releases the camera: in every interleaving the thread reads no
\* camera frame once the camera is released (it has exited by then), it
\* begins at most one more iteration after `running` is cleared, and a
\* stop() that was called completes.
C23_StopJoinsBeforeRelease ==
    /\ [][~cap_open => tracker_frames' = tracker_frames]_vars
    /\ [](~cap_open => thread_pc = "exited")
    /\ [](stop_frames # None => tracker_frames <= stop_frames + 1)
    /\ (stop_pc = "signal") ~> (stop_pc = "done")

\* the camera is released after a shutdown that caught the thread inside
\* an iteration, which it finished: one frame was read after `running` was
\* cleared
C23_Witness ==
    /\ stop_pc = "done"
    /\ ~cap_open
    /\ thread_pc = "exited"
    /\ stop_frames # None
    /\ tracker_frames = stop_frames + 1
    /\ detected

\* C24: within a frame the main loop acts on a consistent tracking
\* snapshot: in a frame whose smile gate reads tracker.detected as True
\* (DORMANT, text VISIBLE), the landmarks passed to SmileDetector.update
\* were not None.
C24_ConsistentSnapshot ==
    [][(IsFrame /\ GateOpen(world_state, TextState) /\ detected)
       => frame_landmarks' # NoLandmarks]_vars

\* C25: the tip vertices of the petals of a rose head are lowered by the
\* droop smoothstep((bloom_t - 0.65) / 0.35) * 0.07 * gravity_factor *
\* depth_attenuation when bloom_t > 0.65 (gravity_factor 1.0 for outer
\* petals, 0.3 for inner ones) and by nothing when bloom_t <= 0.65: their
\* height above head_y is the height of the control point P3 less the droop.
C25_GravitySag ==
    \A i \in 1..Len(flowers) :
        "rose_head" \in flowers[i].drawn =>
            LET f == flowers[i]
                undrooped == PetalTips(f.bloom_t)
            IN /\ f.tip.inner
                  = undrooped.inner
                    - current_gravity(f.bloom_t, 300, DepthNorm(f.z))
               /\ f.tip.outer # None =>
                     f.tip.outer
                     = undrooped.outer
                       - current_gravity(f.bloom_t, LifeOne, DepthNorm(f.z))

\* C26: the text enters FADING_OUT only in a frame in which a fade-out had
\* been requested (in an earlier frame, or by the trigger of this one) and
\* awakening_time has reached fadeout_delay; the request is consumed and
\* none is recorded afterwards, so it enters at most once; and from
\* FADING_OUT, with the main loop running on, it reaches GONE.
C26_FadeOutOnceThenGone ==
    /\ [][/\ (text_state # STATE_FADING_OUT /\ text_state' = STATE_FADING_OUT)
             => /\ text_state \in {STATE_FADING_IN, STATE_VISIBLE}
                /\ \/ fadeout_requested
                   \/ world_state = WORLD_DORMANT /\ world_state' # WORLD_DORMANT
                /\ awakening_time' >= fadeout_delay
                /\ animation_start_time' = awakening_time'
          /\ text_state' \in {STATE_FADING_OUT, STATE_GONE}
             => ~fadeout_requested'
          /\ text_state \in {STATE_FADING_OUT, STATE_GONE}
             => text_state' \in {text_state, STATE_GONE}]_vars
    /\ (text_state = STATE_FADING_OUT) ~> (text_state = STATE_GONE)

\* the fade-out began in a frame after the one that requested it and has
\* run to its end while the world was still awakening
C26_Witness ==
    /\ text_state = STATE_GONE
    /\ world_state = WORLD_AWAKENING
    /\ animation_start_time >= fadeout_delay
    /\ animation_start_time < fadeout_delay + 3

\* C27: SmileText.state only advances along HIDDEN (0), FADING_IN (1),
\* VISIBLE (2), FADING_OUT (3), GONE (4): no update or start_fadeout call
\* moves it to an earlier state, GONE is never left, and the state becomes
\* VISIBLE only in an update with intro_time >= reveal_delay +
\* 4 * letter_delay + letter_fade_in_duration.
C27_TextStateForward ==
    [][/\ text_state' >= text_state
       /\ text_state = STATE_GONE => text_state' = STATE_GONE
       /\ (text_state # STATE_VISIBLE /\ text_state' = STATE_VISIBLE)
          => /\ text_state = STATE_FADING_IN
             /\ intro_time' >= reveal_delay + 4 * letter_delay
                               + letter_fade_in_duration]_vars

\* the text is gone and the latest update came with times from before the
\* reveal and before the fade-out delay
C27_Witness ==
    /\ text_state = STATE_GONE
    /\ intro_time < reveal_delay
    /\ awakening_time < fadeout_delay
    /\ animation_start_time >= fadeout_delay

\* C28: in FlowerField.update the echo never changes the result: for every
\* flower and every world_energy (the one of the latest update and every
\* multiple of 0.05), 0.35 * echo <= primary envelope, the echo is positive
\* only where the envelope is 1, and max(primary, echo * 0.35) is the
\* primary envelope.
C28_EchoNeverWins ==
    \A i \in 1..Len(flowers) :
        \A e \in (IF field_energy = None THEN {} ELSE {field_energy})
                 \cup {50 * k : k \in 0..20} :
            /\ (Echo(flowers[i], e) * 35) \div 100 <= Envelope(flowers[i], e)
            /\ Echo(flowers[i], e) > 0 => Envelope(flowers[i], e) = LifeOne
            /\ WithEcho(flowers[i], e) = Envelope(flowers[i], e)

\* after an update the echo has partly reached one flower, whose envelope
\* is full, and the wave has not reached another
C28_Witness ==
    /\ field_energy # None
    /\ \E i, j \in 1..Len(flowers) :
          /\ Echo(flowers[i], field_energy) > 0
          /\ Echo(flowers[i], field_energy) < LifeOne
          /\ flowers[i].life > 0
          /\ Envelope(flowers[j], field_energy) = 0

\* C29: MessageRenderer.update, called with dt >= 0 and a total_time that
\* never decreases, shows the messages in list order: the index never
\* decreases and is below len(messages) whenever a message is fading in,
\* showing or fading out; a message starts fading in only at or after its
\* start; the states assigned follow the cycle idle, fading_in, showing,
\* fading_out, idle; and current_alpha stays in [0, 1].
CycleNext(state) ==
    CASE state = "idle" -> "fading_in"
      [] state = "fading_in" -> "showing"
      [] state = "showing" -> "fading_out"
      [] state = "fading_out" -> "idle"

IsMessageUpdate == UNCHANGED <<mainVars, trackerVars, fieldVars, stopVars>>

C29_MessagesInOrder ==
    [][IsMessageUpdate =>
        LET path == <<message_state>> \o message_trace'
        IN  /\ current_message_index' >= current_message_index
            /\ message_state' # "idle"
                  => current_message_index' < Len(messages)
            /\ (message_trace' # <<>> /\ message_trace'[1] = "fading_in")
                  => /\ current_message_index' < Len(messages)
                     /\ message_time'
                          >= messages[current_message_index' + 1].start
            /\ \A n \in 1..(Len(path) - 1) : path[n + 1] = CycleNext(path[n])
            /\ message_state' = path[Len(path)]
            /\ current_alpha' \in 0..AlphaOne]_vars

\* the third message or a later one is fading out, half faded, after
\* earlier ones were shown or skipped
C29_Witness ==
    /\ current_message_index >= 2
    /\ message_state = "fading_out"
    /\ current_alpha \in 1..(AlphaOne - 1)
    /\ message_trace = <<>>

\* C30: when the camera helpers cannot be imported from the entry module,
\* FlowerField.draw falls back to drawing the visible flowers unsorted, up
\* to FLOWER_DRAW_LIMIT, and returns without raising.
C30_FallbackReturns == draw_outcome \in {"none", "fallback"}

====
